---- MODULE Spec2Model ----
(***************************************************************************)
(* Model of StockDataCacheManager (src/data_cache_manager.py): the cache,  *)
(* the per-code fetch functions, the two batch runs with retry             *)
(* (financial refresh and gradual detail update) and get_stock_info.       *)
(*                                                                         *)
(* Units: prices are in 0.1 yuan, share counts in 1e8 shares, so a         *)
(* market_cap is in 1e7 yuan (120.5 yuan * 8e8 shares = 1205 * 8 = 9640).  *)
(* A Python dict is a function whose DOMAIN is the set of its keys.        *)
(* A baostock field value (always a string) is <<>> for the empty string   *)
(* and <<n>> for the decimal string of the number n.                       *)
(***************************************************************************)
EXTENDS Integers, Sequences, FiniteSets, TLC

VARIABLES
    cache,                    \* self.cache: code -> record (dict)
    keys,                     \* insertion order of self.cache
    file,                     \* the snapshot file (NoFile when it does not exist)
    pc,                       \* position of the running operation
    mode,                     \* which operation runs
    max_consecutive_failures, \* parameter of the batch run
    codes,                    \* all_codes / pending_codes of the run
    i,                        \* index of the current item (0-based, as enumerate)
    consecutive_failures,
    success_count,            \* stats['success_count'] / updated_count
    failure_count,            \* stats['failure_count'] (financial run only)
    ret,                      \* return value of the operation
    sessions,                 \* sessions open at the provider
    hist,                     \* observations of the run (calls made so far)
    now,                      \* datetime.now(), in days
    validity                  \* log of the is_cache_valid and save_cache calls

vars == <<cache, keys, file, pc, mode, max_consecutive_failures, codes, i,
          consecutive_failures, success_count, failure_count, ret, sessions, hist,
          now, validity>>

\* the clock and the log; the batch runs and the fetches leave them alone
clock == <<now, validity>>

----------------------------------------------------------------------------
(* Bounds of the model *)

NumCodes == 3

NumLongCodes == 100

MaxThreshold == 3

MaxDay == 15

MaxCalls == 3

----------------------------------------------------------------------------
(* Python values *)

None == 0 - 1

NoFile == [exists |-> FALSE]

NoRet == "running"

Min(a, b) == IF a < b THEN a ELSE b

\* dict.get(key, default)
Get(d, k, default) == IF k \in DOMAIN d THEN d[k] ELSE default

\* dict.update(other)
DictUpdate(d, other) ==
    [k \in (DOMAIN d) \cup (DOMAIN other) |->
        IF k \in DOMAIN other THEN other[k] ELSE d[k]]

\* truth value of a baostock string / float() of a non-empty one
Truthy(s) == s # <<>>

Float(s) == s[1]

\* str.startswith on a code given as its digits
StartsWith(code, prefix) ==
    /\ Len(prefix) <= Len(code)
    /\ SubSeq(code, 1, Len(prefix)) = prefix

StartsWithAny(code, prefixes) == \E p \in prefixes : StartsWith(code, p)

----------------------------------------------------------------------------
(* The codes of the model *)

CodeList == << <<0,0,0,0,0,1>>, <<6,0,0,5,1,9>>, <<3,0,0,7,5,0>>,
               <<6,8,8,9,8,1>>, <<8,3,0,7,9,9>> >>

\* codes of the long list: 600001, 600002, ...
LongCode(n) == <<6, 0, (n \div 1000) % 10, (n \div 100) % 10, (n \div 10) % 10, n % 10>>

CodeSeq(n) == [k \in 1..n |-> CodeList[k]]

LongCodeSeq(n) == [k \in 1..n |-> LongCode(k)]

Range(s) == {s[k] : k \in 1..Len(s)}

\* a code that is never in the initial cache (asked through get_stock_info)
ExtraCode == <<0,0,2,4,1,5>>

PENDING == "pending"      \* '待更新'

UNKNOWN == "unknown"      \* '未知行业'

----------------------------------------------------------------------------
(* _get_market_by_code *)

_get_market_by_code(code) ==
    IF StartsWithAny(code, {<<6,0>>, <<6,8>>, <<9>>}) THEN "Shanghai"
    ELSE IF StartsWithAny(code, {<<0,0>>, <<3,0>>}) THEN "Shenzhen"
    ELSE IF StartsWith(code, <<8>>) THEN "Beijing"
    ELSE "Unknown"

\* mutant: one share count for every prefix
estimated_shares_flat(code) == 10

\* the share-count table of the market-cap estimate (unit 1e8 shares)
estimated_shares(code) ==
    IF StartsWithAny(code, {<<0,0,0>>, <<0,0,1>>, <<0,0,2>>}) THEN 8
    ELSE IF StartsWithAny(code, {<<3,0,0>>, <<3,0,1>>}) THEN 4
    ELSE IF StartsWithAny(code, {<<6,0,0>>, <<6,0,1>>, <<6,0,3>>, <<6,0,5>>}) THEN 15
    ELSE IF StartsWith(code, <<6,8,8>>) THEN 6
    ELSE 10

\* `x == '' and '1' or '0'`
list_status_of(outDate) == IF outDate = "" THEN "1" ELSE "0"

\* the price and valuation fields built from the latest K-line row, with the
\* market-cap estimate (close_price stands for the fields defaulting to 0,
\* pe_ttm for the ratios defaulting to None)
kdata_fields(code, kdata_info) ==
    LET close_price == IF Truthy(Get(kdata_info, "close", <<>>))
                       THEN Float(kdata_info["close"]) ELSE 0
        volume      == IF Truthy(Get(kdata_info, "volume", <<>>))
                       THEN Float(kdata_info["volume"]) ELSE 0
        pe_ttm      == IF Truthy(Get(kdata_info, "peTTM", <<>>))
                       THEN Float(kdata_info["peTTM"]) ELSE None
        market_cap  == IF close_price > 0
                       THEN close_price * estimated_shares(code) ELSE None
    IN  [close_price |-> close_price, volume |-> volume, pe_ttm |-> pe_ttm,
         market_cap |-> market_cap]

----------------------------------------------------------------------------
(* The provider (baostock): what a query can answer *)

EmptyDict == <<>>

\* a query raises, answers with a non-success error code, or answers '0'
\* with the rows it has
Raises == [status |-> "raise", rows |-> <<>>]

QueryError == [status |-> "error", rows |-> <<>>]

Answer(rows) == [status |-> "ok", rows |-> rows]

\* the listing facts of a code: the second code of the list is delisted
outDate_of(code) == IF code = CodeList[2] THEN "2023-06-30" ELSE ""

BasicRow(code) == [code_name |-> "listed name", ipoDate |-> "1991-04-03",
                   outDate |-> outDate_of(code)]

BasicResponses(code) == {Raises, QueryError, Answer(<<>>), Answer(<<BasicRow(code)>>)}

IndustryResponses == {Raises, QueryError, Answer(<<>>), Answer(<<[industry |-> "bank"]>>)}

KRow(close, volume, pe) == [close |-> close, volume |-> volume, peTTM |-> pe]

\* the latest row has a price (120.5) or has none (a day without trading)
KRowPriced == KRow(<<1205>>, <<5000>>, <<85>>)

KRowNoPrice == KRow(<<>>, <<>>, <<>>)

KRowOlder == KRow(<<1180>>, <<4000>>, <<80>>)

KResponses == {Raises, QueryError, Answer(<<>>), Answer(<<KRowOlder, KRowPriced>>),
               Answer(<<KRowPriced, KRowNoPrice>>)}

\* one answer for each of the three queries of a per-code fetch
Responses(code) == [basic : BasicResponses(code), industry : IndustryResponses,
                    kdata : KResponses]

----------------------------------------------------------------------------
(* The per-code fetch functions. Each returns an Optional: some = FALSE is *)
(* Python's None.  The timestamps last_updated / last_detailed_update are  *)
(* not modelled.                                                            *)

NoneResult == [some |-> FALSE, value |-> EmptyDict]

Some(d) == [some |-> TRUE, value |-> d]

DefaultName == "stock"

\* rows[0] and rows[-1]
First(rows) == rows[1]

Last(rows) == rows[Len(rows)]

\* the `kdata_info` of both fetch functions
kdata_info_of(kdata) ==
    IF kdata.status = "ok" /\ kdata.rows # <<>> THEN Last(kdata.rows) ELSE EmptyDict

\* the industry query and its fallbacks
industry_query(industry, fallback) ==
    IF industry.status = "ok" /\ industry.rows # <<>>
    THEN Get(First(industry.rows), "industry", UNKNOWN)
    ELSE fallback

\* mutant: the pending industry does not ask for the basic info
need_basic_info_name_only(existing_data) == Get(existing_data, "name", "") = ""

\* `not existing_data.get('name') or existing_data.get('industry') == '待更新'`
need_basic_info(existing_data) ==
    \/ Get(existing_data, "name", "") = ""
    \/ Get(existing_data, "industry", "") = PENDING

update_stock_financial_data_only(cch, code, r) ==
    LET existing_data == IF code \in DOMAIN cch THEN cch[code] ELSE EmptyDict
        need_basic    == need_basic_info(existing_data)
        basic_failed  == need_basic /\ (r.basic.status # "ok" \/ r.basic.rows = <<>>)
        stock_info    == IF need_basic
                         THEN First(r.basic.rows)
                         ELSE [code_name |-> Get(existing_data, "name", DefaultName),
                               ipoDate   |-> Get(existing_data, "list_date", ""),
                               outDate   |-> ""]
        industry_old  == Get(existing_data, "industry", UNKNOWN)
        industry_info == IF need_basic /\ industry_old \in {PENDING, UNKNOWN, ""}
                         THEN industry_query(r.industry, industry_old)
                         ELSE industry_old
        kdata_info    == kdata_info_of(r.kdata)
        result ==
            [code      |-> code,
             name      |-> Get(stock_info, "code_name",
                               Get(existing_data, "name", DefaultName)),
             industry  |-> industry_info,
             market    |-> Get(existing_data, "market", _get_market_by_code(code)),
             list_date |-> Get(stock_info, "ipoDate", Get(existing_data, "list_date", "")),
             list_status |-> list_status_of(Get(stock_info, "outDate", "")),
             detailed_info_updated |-> TRUE]
    IN  IF basic_failed THEN NoneResult
        ELSE IF r.kdata.status = "raise" THEN NoneResult
        ELSE IF DOMAIN kdata_info # {}
             THEN Some(DictUpdate(result, kdata_fields(code, kdata_info)))
             ELSE Some(result)

\* mutant: an empty basic-info answer is not rejected, the defaults are used
get_stock_basic_info_from_baostock_no_empty_check(code, r) ==
    LET basic_failed  == r.basic.status # "ok"
        stock_info    == IF r.basic.rows = <<>> THEN EmptyDict ELSE First(r.basic.rows)
        industry_info == industry_query(r.industry, UNKNOWN)
        kdata_info    == kdata_info_of(r.kdata)
        result ==
            [code      |-> code,
             name      |-> Get(stock_info, "code_name", DefaultName),
             industry  |-> industry_info,
             market    |-> _get_market_by_code(code),
             list_date |-> Get(stock_info, "ipoDate", ""),
             list_status |-> list_status_of(Get(stock_info, "outDate", ""))]
    IN  IF basic_failed THEN NoneResult
        ELSE IF r.kdata.status = "raise" THEN NoneResult
        ELSE IF DOMAIN kdata_info # {}
             THEN Some(DictUpdate(result, kdata_fields(code, kdata_info)))
             ELSE Some(result)

get_stock_basic_info_from_baostock(code, r) ==
    LET basic_failed  == r.basic.status # "ok" \/ r.basic.rows = <<>>
        stock_info    == First(r.basic.rows)
        industry_info == industry_query(r.industry, UNKNOWN)
        kdata_info    == kdata_info_of(r.kdata)
        result ==
            [code      |-> code,
             name      |-> Get(stock_info, "code_name", DefaultName),
             industry  |-> industry_info,
             market    |-> _get_market_by_code(code),
             list_date |-> Get(stock_info, "ipoDate", ""),
             list_status |-> list_status_of(Get(stock_info, "outDate", ""))]
    IN  IF basic_failed THEN NoneResult
        ELSE IF r.kdata.status = "raise" THEN NoneResult
        ELSE IF DOMAIN kdata_info # {}
             THEN Some(DictUpdate(result, kdata_fields(code, kdata_info)))
             ELSE Some(result)

----------------------------------------------------------------------------
(* Records a snapshot file can hold when the manager is constructed *)

\* the skeleton written by initialize_stock_list
SkeletonRecord(code) ==
    [code      |-> code,
     name      |-> BasicRow(code).code_name,
     industry  |-> PENDING,
     market    |-> _get_market_by_code(code),
     list_date |-> BasicRow(code).ipoDate,
     list_status |-> list_status_of(BasicRow(code).outDate),
     detailed_info_updated |-> FALSE]

AllAnswered == [basic    |-> Answer(<<BasicRow(CodeList[1])>>),
                industry |-> Answer(<<[industry |-> "bank"]>>),
                kdata    |-> Answer(<<KRowOlder>>)]

\* the record an earlier gradual run wrote for a code whose queries all answered
DetailedRecord(code) ==
    DictUpdate(get_stock_basic_info_from_baostock(code,
                   [AllAnswered EXCEPT !.basic = Answer(<<BasicRow(code)>>)]).value,
               [detailed_info_updated |-> TRUE])

\* the record get_stock_info or update_stock_cache wrote for a code whose
\* queries all answered: the fetched result, without the flag
FetchedRecord(code) ==
    get_stock_basic_info_from_baostock(code,
        [AllAnswered EXCEPT !.basic = Answer(<<BasicRow(code)>>)]).value

\* the first `done` codes are detailed, the next `plain` ones were fetched by
\* get_stock_info or update_stock_cache, the others are still skeletons (the
\* initial caches have such a record only when no code is detailed yet)
InitialCache(seq, done, plain) ==
    [c \in Range(seq) |->
        IF \E k \in 1..done : seq[k] = c THEN DetailedRecord(c)
        ELSE IF \E k \in (done + 1)..(done + plain) : seq[k] = c THEN FetchedRecord(c)
        ELSE SkeletonRecord(c)]

\* how many records of the initial cache have no flag
PlainCounts == 0..1

----------------------------------------------------------------------------
(* save_cache / load_cache *)

\* the content save_cache writes: last_update is datetime.now()
Snapshot(cch, order) ==
    [exists |-> TRUE, last_update |-> now, data_source |-> "baostock",
     total_count |-> Cardinality(DOMAIN cch), stocks |-> cch, order |-> order]

\* mutant: the records already in the file are kept as they are
save_cache_keeps_old(f, cch, order, io) ==
    IF io = "ok"
    THEN [Snapshot(cch, order) EXCEPT
            !.stocks = [c \in DOMAIN cch |->
                           IF f.exists /\ c \in DOMAIN f.stocks
                           THEN f.stocks[c] ELSE cch[c]]]
    ELSE f

\* save_cache: the write succeeds, or open() fails and the exception is logged
save_cache(f, cch, order, io) == IF io = "ok" THEN Snapshot(cch, order) ELSE f

\* the file between open(cache_file, 'w'), which empties it, and the end of
\* json.dump: empty or a prefix of the document, which json.load rejects
Truncated == [exists |-> TRUE, truncated |-> TRUE, last_update |-> None]

\* load_cache: self.cache of a new manager; no file leaves {}, a file that
\* json.load rejects goes to the handler, which sets {}
load_cache(f) ==
    IF ~f.exists THEN EmptyDict
    ELSE IF "stocks" \notin DOMAIN f THEN EmptyDict
    ELSE f.stocks

cache_validity_days == 15

\* mutant: a snapshot of exactly cache_validity_days days is still valid
is_cache_valid_inclusive(f, today) ==
    IF ~f.exists THEN FALSE
    ELSE IF f.last_update = None THEN FALSE
    ELSE today - f.last_update <= cache_validity_days

\* is_cache_valid: no file or no last_update gives False, else
\* `(datetime.now() - last_update).days < self.cache_validity_days`
is_cache_valid(f, today) ==
    IF ~f.exists THEN FALSE
    ELSE IF f.last_update = None THEN FALSE
    ELSE today - f.last_update < cache_validity_days

\* an entry of the log: a call of is_cache_valid ("valid") with its result,
\* or a call of save_cache ("save") with the success of its write; the day of
\* the call, the last_update the file had, the number of records in memory
LogEntry(ev, result, f, cch) ==
    [ev |-> ev, result |-> result, at |-> now,
     last_update |-> IF f.exists THEN f.last_update ELSE None,
     cached |-> Cardinality(DOMAIN cch)]

SaveLog(f, cch, io) == Append(validity, LogEntry("save", io = "ok", f, cch))

IoOutcomes == {"ok", "fail"}

----------------------------------------------------------------------------
(* Program constants of the batch runs *)

delay_seconds == 10

FinancialCheckpoint == 100

GradualCheckpoint == 10

backoff_delays(m) == IF m = "financial" THEN <<20, 60, 120, 300>> ELSE <<10, 15, 20, 30>>

checkpoint_every(m) == IF m = "financial" THEN FinancialCheckpoint ELSE GradualCheckpoint

\* Python list indexing (0-based, negative indices count from the end)
PyIndex(seq, idx) == IF idx >= 0 THEN seq[idx + 1] ELSE seq[Len(seq) + idx + 1]

\* mutant: the threshold is not subtracted from the failure count
backoff_delay_no_offset(m, failures, threshold) ==
    PyIndex(backoff_delays(m), Min(failures, Len(backoff_delays(m)) - 1))

backoff_delay(m, failures, threshold) ==
    PyIndex(backoff_delays(m), Min(failures - threshold, Len(backoff_delays(m)) - 1))

----------------------------------------------------------------------------
(* Observations *)

Event(ev, arg) == [ev |-> ev, arg |-> arg]

\* how a query was answered: "raise", "error", "empty" (code '0', no rows), "rows"
Kind(q) == IF q.status = "ok" THEN (IF q.rows = <<>> THEN "empty" ELSE "rows")
           ELSE q.status

\* the basic-info and history queries a fetch issues, with the kind of their
\* answers: the basic query only when needed, the history query only when the
\* fetch did not return before it
queries_issued(basic_needed, r) ==
    [basic |-> IF basic_needed THEN Kind(r.basic) ELSE "skipped",
     kdata |-> IF basic_needed /\ Kind(r.basic) # "rows" THEN "skipped"
               ELSE Kind(r.kdata)]

NoQueries == [basic |-> "skipped", kdata |-> "skipped"]

NoHist ==
    [logins         |-> 0,      \* login calls
     logins_ok      |-> 0,      \* successful login calls
     logouts        |-> 0,      \* logout calls
     logouts_closed |-> 0,      \* logout calls made while no session was open
     fetches        |-> <<>>,   \* codes fetched, in order
     fetch_closed   |-> FALSE,  \* a fetch was made while no session was open
     saves          |-> 0,      \* save_cache() calls
     ckpts          |-> <<>>,   \* success counts at which a checkpoint was saved
     final_saved    |-> FALSE,  \* the save after the loop was called
     initial_login  |-> "none", \* outcome of the first login of the run
     renew_failed   |-> FALSE,  \* a session renewal failed
     raised         |-> 0,      \* items whose processing raised
     tripped        |-> <<>>,   \* [failures, threshold, pause] of each breaker trip
     start_cache    |-> EmptyDict,  \* the cache when the operation started
     start_file     |-> NoFile,     \* the file when the operation started
     final_io       |-> "none", \* outcome of the write of the final save
     saving         |-> EmptyDict,  \* the cache the last save_cache() call was given
     queries        |-> NoQueries,  \* the queries of the last fetch and their answers
     existing       |-> EmptyDict,  \* the cached record before the last fetch
     fetched        |-> NoneResult, \* what the last fetch returned
     args           |-> <<>>,   \* the arguments of a query on the cache
     result         |-> <<>>,   \* the list a query on the cache returned
     trace          |-> <<>>]   \* calls made since the current item started

\* bs.logout(): closes the session if one is open
LogoutHist(h, s) ==
    [h EXCEPT !.logouts = @ + 1,
              !.logouts_closed = IF s = 0 THEN @ + 1 ELSE @,
              !.trace = Append(@, Event("logout", 0))]

LogoutSessions(s) == IF s > 0 THEN s - 1 ELSE 0

LoginOutcomes == {"ok", "fail", "raise"}

----------------------------------------------------------------------------
(* Initial states: a manager constructed on a snapshot file *)

InitRun ==
    /\ pc = "idle"
    /\ mode = "none"
    /\ max_consecutive_failures = 0
    /\ codes = <<>>
    /\ i = 0
    /\ consecutive_failures = 0
    /\ success_count = 0
    /\ failure_count = 0
    /\ ret = NoRet
    /\ sessions = 0
    /\ hist = NoHist

\* the day the manager is constructed; day 0 is two weeks earlier
Today == 14

Init ==
    /\ now = Today
    /\ validity = <<>>
    /\ \E n \in {0, NumCodes} : \E done \in 0..n :
       \E plain \in {k \in PlainCounts : done + k <= n /\ (k = 0 \/ done = 0)} :
          /\ keys = CodeSeq(n)
          /\ cache = InitialCache(CodeSeq(n), done, plain)
          /\ file = IF n = 0 THEN NoFile ELSE Snapshot(cache, keys)
    /\ InitRun

\* a large cache, every record detailed by earlier runs
InitLong ==
    /\ now = Today
    /\ validity = <<>>
    /\ keys = LongCodeSeq(NumLongCodes)
    /\ cache = InitialCache(keys, NumLongCodes, 0)
    /\ file = Snapshot(cache, keys)
    /\ InitRun

----------------------------------------------------------------------------
(* The batch runs: update_stock_cache_financial_only_with_retry and        *)
(* update_stock_cache_gradual_with_retry                                    *)

Thresholds == 1..MaxThreshold

\* mutant: every cached code is pending
pending_codes_all(cch, order) == order

\* the pending list of the gradual run
pending_codes(cch, order) ==
    SelectSeq(order, LAMBDA c : ~Get(cch[c], "detailed_info_updated", FALSE))

\* mutant: no early return on an empty list, the code after the loop runs
StartRun_no_early_return(m, threshold, list) ==
    /\ pc = "idle"
    /\ mode' = m
    /\ max_consecutive_failures' = threshold
    /\ codes' = list
    /\ hist' = [NoHist EXCEPT !.start_cache = cache, !.start_file = file]
    /\ IF list = <<>>
       THEN pc' = "final_logout" /\ ret' = NoRet
       ELSE pc' = "login" /\ ret' = NoRet
    /\ UNCHANGED clock
    /\ UNCHANGED <<cache, keys, file, i, consecutive_failures, success_count,
                   failure_count, sessions>>

\* the pending list, the early `return True` when it is empty, else the login
StartRun(m, threshold, list) ==
    /\ pc = "idle"
    /\ mode' = m
    /\ max_consecutive_failures' = threshold
    /\ codes' = list
    /\ hist' = [NoHist EXCEPT !.start_cache = cache, !.start_file = file]
    /\ IF list = <<>>
       THEN pc' = "done" /\ ret' = "True"
       ELSE pc' = "login" /\ ret' = NoRet
    /\ UNCHANGED clock
    /\ UNCHANGED <<cache, keys, file, i, consecutive_failures, success_count,
                   failure_count, sessions>>

StartFinancial(threshold) == StartRun("financial", threshold, keys)

StartGradual(threshold) == StartRun("gradual", threshold, pending_codes(cache, keys))

\* mutant: the error code of the first login is not tested
after_initial_login_unchecked(outcome) == IF outcome = "raise" THEN "fatal" ELSE "item"

\* `if lg.error_code != '0': raise RuntimeError`; the outer handler is "fatal"
after_initial_login(outcome) == IF outcome = "ok" THEN "item" ELSE "fatal"

\* lg = bs.login() before the loop; a failure raises RuntimeError
InitialLogin(outcome) ==
    /\ pc = "login"
    /\ hist' = [hist EXCEPT !.initial_login = outcome,
                            !.logins = @ + 1,
                            !.logins_ok = IF outcome = "ok" THEN @ + 1 ELSE @,
                            !.trace = Append(@, Event("login_" \o outcome, 0))]
    /\ sessions' = IF outcome = "ok" THEN sessions + 1 ELSE sessions
    /\ pc' = after_initial_login(outcome)
    /\ UNCHANGED clock
    /\ UNCHANGED <<cache, keys, file, mode, max_consecutive_failures, codes, i,
                   consecutive_failures, success_count, failure_count, ret>>

\* mutant: the handler returns False without the logout
FatalCleanup_no_logout ==
    /\ pc = "fatal"
    /\ ret' = "False"
    /\ pc' = "done"
    /\ UNCHANGED clock
    /\ UNCHANGED <<cache, keys, file, mode, max_consecutive_failures, codes, i,
                   consecutive_failures, success_count, failure_count, sessions, hist>>

\* the outer `except Exception`: logout (errors ignored), return False
FatalCleanup ==
    /\ pc = "fatal"
    /\ hist' = LogoutHist(hist, sessions)
    /\ sessions' = LogoutSessions(sessions)
    /\ ret' = "False"
    /\ pc' = "done"
    /\ UNCHANGED clock
    /\ UNCHANGED <<cache, keys, file, mode, max_consecutive_failures, codes, i,
                   consecutive_failures, success_count, failure_count>>

\* mutant: the breaker trips only above the threshold
AfterItem_above_threshold(failures) ==
    IF failures > max_consecutive_failures
    THEN pc' = "backoff" /\ i' = i
    ELSE IF i < Len(codes) - 1
         THEN pc' = "pace" /\ i' = i
         ELSE pc' = "final_logout" /\ i' = i + 1

\* the end of an iteration that reached the breaker test
AfterItem(failures) ==
    IF failures >= max_consecutive_failures
    THEN pc' = "backoff" /\ i' = i
    ELSE IF i < Len(codes) - 1
         THEN pc' = "pace" /\ i' = i
         ELSE pc' = "final_logout" /\ i' = i + 1

\* mutant: the same code is taken again
NextIteration_same_code ==
    /\ i' = i
    /\ pc' = "item"

\* the next iteration of the for loop, or its end
NextIteration ==
    /\ i' = i + 1
    /\ pc' = IF i + 1 < Len(codes) THEN "item" ELSE "final_logout"

\* the log line of the financial run divides market_cap by 1e8
log_raises(m, stock_info) == m = "financial" /\ Get(stock_info, "market_cap", 0) = None

\* mutant: the exception leaves the loop for the outer handler
ItemExcept_propagates == pc' = "fatal" /\ i' = i

\* the `continue` of the per-item `except Exception`
ItemExcept == NextIteration

\* one iteration up to the breaker test: fetch, cache update, counters,
\* checkpoint save, and the per-item `except Exception: ... continue`
ProcessItem(r, io) ==
    /\ pc = "item"
    /\ LET code == codes[i + 1]
           fetched == IF mode = "financial"
                      THEN update_stock_financial_data_only(cache, code, r)
                      ELSE get_stock_basic_info_from_baostock(code, r)
           stock_info == IF mode = "financial" THEN fetched.value
                         ELSE DictUpdate(fetched.value, [detailed_info_updated |-> TRUE])
           existing == IF code \in DOMAIN cache THEN cache[code] ELSE EmptyDict
           h0 == [hist EXCEPT !.fetches = Append(@, code),
                              !.fetch_closed = @ \/ sessions = 0,
                              !.queries = queries_issued(mode = "gradual"
                                               \/ need_basic_info(existing), r),
                              !.existing = existing,
                              !.fetched = fetched,
                              !.trace = <<Event("fetch", 0)>>]
           count == success_count + 1
           due == count % checkpoint_every(mode) = 0
       IN  IF fetched.some
           THEN /\ cache' = [cache EXCEPT ![code] = stock_info]
                /\ success_count' = count
                /\ IF log_raises(mode, stock_info)
                   THEN /\ consecutive_failures' = 0 + 1
                        /\ failure_count' = failure_count + 1
                        /\ hist' = [h0 EXCEPT !.raised = @ + 1,
                                              !.trace = Append(@, Event("raise", 0))]
                        /\ file' = file
                        /\ validity' = validity
                        /\ ItemExcept
                   ELSE /\ consecutive_failures' = 0
                        /\ failure_count' = failure_count
                        /\ IF due
                           THEN /\ file' = save_cache(file, cache', keys, io)
                                /\ validity' = SaveLog(file, cache', io)
                                /\ hist' = [h0 EXCEPT !.saves = @ + 1,
                                                      !.saving = cache',
                                                      !.ckpts = Append(@, count),
                                                      !.trace = Append(@, Event("save", 0))]
                           ELSE /\ file' = file
                                /\ validity' = validity
                                /\ hist' = h0
                        /\ AfterItem(0)
           ELSE /\ consecutive_failures' = consecutive_failures + 1
                /\ failure_count' = IF mode = "financial"
                                    THEN failure_count + 1 ELSE failure_count
                /\ hist' = h0
                /\ AfterItem(consecutive_failures + 1)
                /\ UNCHANGED <<cache, file, success_count, validity>>
    /\ UNCHANGED <<keys, mode, max_consecutive_failures, codes, ret, sessions, now>>

\* mutant: the counter is not reset after the pause
failures_after_backoff_kept(failures) == failures

\* `consecutive_failures = 0` after the backoff sleep
failures_after_backoff(failures) == 0

\* the breaker tripped: sleep the backoff delay, reset the counter
Backoff ==
    /\ pc = "backoff"
    /\ LET pause == backoff_delay(mode, consecutive_failures, max_consecutive_failures)
       IN  hist' = [hist EXCEPT
                       !.tripped = Append(@, [failures  |-> consecutive_failures,
                                              threshold |-> max_consecutive_failures,
                                              pause     |-> pause]),
                       !.trace = Append(@, Event("backoff_sleep", pause))]
    /\ consecutive_failures' = failures_after_backoff(consecutive_failures)
    /\ pc' = "renew_logout"
    /\ UNCHANGED clock
    /\ UNCHANGED <<cache, keys, file, mode, max_consecutive_failures, codes, i,
                   success_count, failure_count, ret, sessions>>

\* the session renewal: bs.logout() ...
RenewLogout ==
    /\ pc = "renew_logout"
    /\ hist' = LogoutHist(hist, sessions)
    /\ sessions' = LogoutSessions(sessions)
    /\ pc' = "renew_login"
    /\ UNCHANGED clock
    /\ UNCHANGED <<cache, keys, file, mode, max_consecutive_failures, codes, i,
                   consecutive_failures, success_count, failure_count, ret>>

\* mutant: a failed renewal raises out of the loop instead of breaking it
after_renew_failure_raise == "fatal"

\* `break` on a failed renewal: the code after the loop runs next
after_renew_failure == "final_logout"

\* ... then bs.login(); an error code or an exception breaks the loop
RenewLogin(outcome) ==
    /\ pc = "renew_login"
    /\ hist' = [hist EXCEPT !.logins = @ + 1,
                            !.logins_ok = IF outcome = "ok" THEN @ + 1 ELSE @,
                            !.renew_failed = @ \/ outcome # "ok",
                            !.trace = Append(@, Event("login_" \o outcome, 0))]
    /\ sessions' = IF outcome = "ok" THEN sessions + 1 ELSE sessions
    /\ IF outcome = "ok"
       THEN NextIteration
       ELSE pc' = after_renew_failure /\ i' = i
    /\ UNCHANGED clock
    /\ UNCHANGED <<cache, keys, file, mode, max_consecutive_failures, codes,
                   consecutive_failures, success_count, failure_count, ret>>

\* the pacing delay between two items
Pace ==
    /\ pc = "pace"
    /\ hist' = [hist EXCEPT !.trace = Append(@, Event("pace_sleep", delay_seconds))]
    /\ NextIteration
    /\ UNCHANGED clock
    /\ UNCHANGED <<cache, keys, file, mode, max_consecutive_failures, codes,
                   consecutive_failures, success_count, failure_count, ret, sessions>>

\* after the loop: bs.logout()
FinalLogout ==
    /\ pc = "final_logout"
    /\ hist' = LogoutHist(hist, sessions)
    /\ sessions' = LogoutSessions(sessions)
    /\ pc' = "final_save"
    /\ UNCHANGED clock
    /\ UNCHANGED <<cache, keys, file, mode, max_consecutive_failures, codes, i,
                   consecutive_failures, success_count, failure_count, ret>>

\* the final save_cache() and `return True`
FinalSave(io) ==
    /\ pc = "final_save"
    /\ file' = save_cache(file, cache, keys, io)
    /\ validity' = SaveLog(file, cache, io)
    /\ hist' = [hist EXCEPT !.saves = @ + 1, !.final_saved = TRUE, !.final_io = io,
                            !.saving = cache,
                            !.trace = Append(@, Event("save", 0))]
    /\ ret' = "True"
    /\ pc' = "done"
    /\ UNCHANGED <<now, cache, keys, mode, max_consecutive_failures, codes, i,
                   consecutive_failures, success_count, failure_count, sessions>>

----------------------------------------------------------------------------
(* get_stock_info *)

AskedCodes == {CodeList[1], ExtraCode}

get_stock_info(code) ==
    /\ pc = "idle"
    /\ mode' = "get_stock_info"
    /\ codes' = <<code>>
    /\ hist' = [NoHist EXCEPT !.start_cache = cache, !.start_file = file]
    /\ IF code \in DOMAIN cache
       THEN pc' = "done" /\ ret' = "record"
       ELSE pc' = "gsi_login" /\ ret' = NoRet
    /\ UNCHANGED clock
    /\ UNCHANGED <<cache, keys, file, max_consecutive_failures, i,
                   consecutive_failures, success_count, failure_count, sessions>>

\* mutant: the fetch is made whatever the error code of the login
after_gsi_login_unchecked(outcome) == IF outcome = "raise" THEN "gsi_except" ELSE "gsi_fetch"

\* `if lg.error_code == '0':` guards the fetch; an exception goes to the handler
after_gsi_login(outcome) ==
    CASE outcome = "ok" -> "gsi_fetch"
      [] outcome = "fail" -> "done"
      [] OTHER -> "gsi_except"

\* lg = bs.login(): an error code returns None, an exception goes to the handler
GsiLogin(outcome) ==
    /\ pc = "gsi_login"
    /\ hist' = [hist EXCEPT !.initial_login = outcome,
                            !.logins = @ + 1,
                            !.logins_ok = IF outcome = "ok" THEN @ + 1 ELSE @,
                            !.trace = Append(@, Event("login_" \o outcome, 0))]
    /\ sessions' = IF outcome = "ok" THEN sessions + 1 ELSE sessions
    /\ pc' = after_gsi_login(outcome)
    /\ ret' = IF after_gsi_login(outcome) = "done" THEN "None" ELSE NoRet
    /\ UNCHANGED clock
    /\ UNCHANGED <<cache, keys, file, mode, max_consecutive_failures, codes, i,
                   consecutive_failures, success_count, failure_count>>

\* the fetch, bs.logout(), and the cache entry when the fetch gave a record
GsiFetch(r) ==
    /\ pc = "gsi_fetch"
    /\ LET code == codes[1]
           fetched == get_stock_basic_info_from_baostock(code, r)
           h0 == [hist EXCEPT !.fetches = Append(@, code),
                              !.fetch_closed = @ \/ sessions = 0,
                              !.queries = queries_issued(TRUE, r),
                              !.fetched = fetched,
                              !.trace = Append(@, Event("fetch", 0))]
       IN  /\ hist' = LogoutHist(h0, sessions)
           /\ sessions' = LogoutSessions(sessions)
           /\ IF fetched.some
              THEN /\ cache' = [c \in (DOMAIN cache) \cup {code} |->
                                   IF c = code THEN fetched.value ELSE cache[c]]
                   /\ keys' = Append(keys, code)
                   /\ ret' = "record"
              ELSE /\ UNCHANGED <<cache, keys>>
                   /\ ret' = "None"
    /\ pc' = "done"
    /\ UNCHANGED clock
    /\ UNCHANGED <<file, mode, max_consecutive_failures, codes, i,
                   consecutive_failures, success_count, failure_count>>

\* the handler of get_stock_info: logout (errors ignored), return None
GsiExcept ==
    /\ pc = "gsi_except"
    /\ hist' = LogoutHist(hist, sessions)
    /\ sessions' = LogoutSessions(sessions)
    /\ ret' = "None"
    /\ pc' = "done"
    /\ UNCHANGED clock
    /\ UNCHANGED <<cache, keys, file, mode, max_consecutive_failures, codes, i,
                   consecutive_failures, success_count, failure_count>>

----------------------------------------------------------------------------
(* Specifications *)

Next ==
    \/ \E threshold \in Thresholds : StartFinancial(threshold)
    \/ \E threshold \in Thresholds : StartGradual(threshold)
    \/ \E outcome \in LoginOutcomes : InitialLogin(outcome)
    \/ FatalCleanup
    \/ /\ pc = "item"
       /\ \E r \in Responses(codes[i + 1]) : \E io \in IoOutcomes : ProcessItem(r, io)
    \/ Backoff
    \/ RenewLogout
    \/ \E outcome \in LoginOutcomes : RenewLogin(outcome)
    \/ Pace
    \/ FinalLogout
    \/ \E io \in IoOutcomes : FinalSave(io)
    \/ \E code \in AskedCodes : get_stock_info(code)
    \/ \E outcome \in LoginOutcomes : GsiLogin(outcome)
    \/ /\ pc = "gsi_fetch"
       /\ \E r \in Responses(codes[1]) : GsiFetch(r)
    \/ GsiExcept

Spec == Init /\ [][Next]_vars

\* the long financial run: every query answers, the latest row of at most one
\* code has no price
LongResponses ==
    {[AllAnswered EXCEPT !.kdata = Answer(<<KRowOlder, KRowPriced>>)]} \cup
    IF \A c \in DOMAIN cache : Get(cache[c], "market_cap", 0) # None
    THEN {[AllAnswered EXCEPT !.kdata = Answer(<<KRowPriced, KRowNoPrice>>)]}
    ELSE {}

NextLong ==
    \/ \E threshold \in Thresholds : StartFinancial(threshold)
    \/ InitialLogin("ok")
    \/ /\ pc = "item"
       /\ \E r \in LongResponses : ProcessItem(r, "ok")
    \/ Pace
    \/ FinalLogout
    \/ FinalSave("ok")

SpecLong == InitLong /\ [][NextLong]_vars

----------------------------------------------------------------------------
(* The per-code fetch functions called on their own: one call of           *)
(* update_stock_financial_data_only or get_stock_basic_info_from_baostock  *)
(* for a code of any prefix, on a cache that has or has not a record of it *)

\* one code for each prefix of the share-count table, and two of no prefix
FetchCodes == {<<0,0,0,0,0,1>>, <<0,0,1,9,7,9>>, <<0,0,2,4,1,5>>,
               <<3,0,0,7,5,0>>, <<3,0,1,2,6,9>>,
               <<6,0,0,5,1,9>>, <<6,0,1,3,9,8>>, <<6,0,3,2,8,8>>, <<6,0,5,4,9,9>>,
               <<6,8,8,9,8,1>>, <<8,3,0,7,9,9>>, <<9,0,0,9,0,1>>}

\* the close of the latest K-line row: '', '0', or a price (0.1, 120.5, 9999.9)
FetchPrices == {<<>>, <<0>>, <<1>>, <<1205>>, <<99999>>}

FetchResponses(code) ==
    [basic : BasicResponses(code), industry : IndustryResponses,
     kdata : {Raises, QueryError, Answer(<<>>)} \cup
             {Answer(<<KRowOlder, KRow(p, <<5000>>, <<85>>)>>) : p \in FetchPrices}]

RecordKinds == {"absent", "skeleton", "detailed", "fetched"}

InitFetch ==
    /\ now = Today
    /\ validity = <<>>
    /\ \E code \in FetchCodes : \E kind \in RecordKinds :
          /\ codes = <<code>>
          /\ keys = IF kind = "absent" THEN <<>> ELSE <<code>>
          /\ cache = [c \in Range(keys) |->
                         CASE kind = "skeleton" -> SkeletonRecord(c)
                           [] kind = "detailed" -> DetailedRecord(c)
                           [] OTHER -> FetchedRecord(c)]
          /\ file = IF kind = "absent" THEN NoFile ELSE Snapshot(cache, keys)
    /\ pc = "idle"
    /\ mode = "none"
    /\ max_consecutive_failures = 0
    /\ i = 0
    /\ consecutive_failures = 0
    /\ success_count = 0
    /\ failure_count = 0
    /\ ret = NoRet
    /\ sessions = 1
    /\ hist = NoHist

\* one call of a fetch function, by a caller that has logged in
FetchCall(fn, basic_needed, fetched, r) ==
    /\ pc = "idle"
    /\ mode' = fn
    /\ hist' = [NoHist EXCEPT !.start_cache = cache, !.start_file = file,
                              !.fetches = codes,
                              !.queries = queries_issued(basic_needed, r),
                              !.existing = Get(cache, codes[1], EmptyDict),
                              !.fetched = fetched,
                              !.trace = <<Event("fetch", 0)>>]
    /\ ret' = IF fetched.some THEN "record" ELSE "None"
    /\ pc' = "done"
    /\ UNCHANGED clock
    /\ UNCHANGED <<cache, keys, file, max_consecutive_failures, codes, i,
                   consecutive_failures, success_count, failure_count, sessions>>

CallFinancial(r) ==
    FetchCall("update_stock_financial_data_only",
              need_basic_info(Get(cache, codes[1], EmptyDict)),
              update_stock_financial_data_only(cache, codes[1], r), r)

CallBasic(r) ==
    FetchCall("get_stock_basic_info_from_baostock", TRUE,
              get_stock_basic_info_from_baostock(codes[1], r), r)

NextFetch ==
    \/ \E r \in FetchResponses(codes[1]) : CallFinancial(r)
    \/ \E r \in FetchResponses(codes[1]) : CallBasic(r)

SpecFetch == InitFetch /\ [][NextFetch]_vars

----------------------------------------------------------------------------
(* The snapshot file over time: days pass, save_cache and is_cache_valid   *)
(* are called between operations, get_stock_info updates the cache in      *)
(* memory without saving                                                    *)

\* the file was written by save_cache today or two weeks ago, or by a tool
\* that writes no last_update; there is no file when nothing was ever cached
InitSnapshot ==
    /\ now = Today
    /\ validity = <<>>
    /\ \E n \in {0, NumCodes} :
          /\ keys = CodeSeq(n)
          /\ cache = InitialCache(CodeSeq(n), n, 0)
          /\ file \in IF n = 0 THEN {NoFile}
                       ELSE {[Snapshot(cache, keys) EXCEPT !.last_update = t] :
                                t \in {Today, 0, None}}
    /\ InitRun

Idle == pc \in {"idle", "done"}

\* the provider answers every query of the code, or fails its basic-info query
SnapshotResponses(code) ==
    {[AllAnswered EXCEPT !.basic = b] : b \in {Answer(<<BasicRow(code)>>), QueryError}}

\* a day passes between two calls
Tick ==
    /\ Idle
    /\ now < MaxDay
    /\ now' = now + 1
    /\ UNCHANGED <<cache, keys, file, pc, mode, max_consecutive_failures, codes, i,
                   consecutive_failures, success_count, failure_count, ret, sessions,
                   hist, validity>>

\* a call of is_cache_valid()
IsCacheValid ==
    /\ Idle
    /\ Len(validity) < MaxCalls
    /\ validity' = Append(validity,
                          LogEntry("valid", is_cache_valid(file, now), file, cache))
    /\ UNCHANGED <<cache, keys, file, pc, mode, max_consecutive_failures, codes, i,
                   consecutive_failures, success_count, failure_count, ret, sessions,
                   hist, now>>

\* a call of save_cache()
SaveCall(io) ==
    /\ Idle
    /\ Len(validity) < MaxCalls
    /\ file' = save_cache(file, cache, keys, io)
    /\ validity' = SaveLog(file, cache, io)
    /\ UNCHANGED <<cache, keys, pc, mode, max_consecutive_failures, codes, i,
                   consecutive_failures, success_count, failure_count, ret, sessions,
                   hist, now>>

NextSnapshot ==
    \/ Tick
    \/ IsCacheValid
    \/ \E io \in IoOutcomes : SaveCall(io)
    \/ \E code \in AskedCodes : get_stock_info(code)
    \/ \E outcome \in LoginOutcomes : GsiLogin(outcome)
    \/ /\ pc = "gsi_fetch"
       /\ \E r \in SnapshotResponses(codes[1]) : GsiFetch(r)
    \/ GsiExcept

SpecSnapshot == InitSnapshot /\ [][NextSnapshot]_vars

----------------------------------------------------------------------------
(* A batch run whose process is terminated: the final save is two steps    *)
(* (the file is opened for writing, then the document is dumped), the       *)
(* process can be killed before any step, and a new manager loads the file  *)

\* with open(self.cache_file, 'w'): the file is emptied, or open() fails
FinalSaveOpen(io) ==
    /\ pc = "final_save"
    /\ hist' = [hist EXCEPT !.saves = @ + 1, !.final_saved = TRUE, !.final_io = io,
                            !.saving = cache,
                            !.trace = Append(@, Event("save", 0))]
    /\ IF io = "ok"
       THEN /\ file' = Truncated
            /\ pc' = "final_save_dump"
            /\ UNCHANGED <<ret, validity>>
       ELSE /\ file' = file
            /\ validity' = SaveLog(file, cache, io)
            /\ ret' = "True"
            /\ pc' = "done"
    /\ UNCHANGED <<now, cache, keys, mode, max_consecutive_failures, codes, i,
                   consecutive_failures, success_count, failure_count, sessions>>

\* json.dump(cache_data, f) completes, `return True`
FinalSaveDump ==
    /\ pc = "final_save_dump"
    /\ file' = Snapshot(cache, keys)
    /\ validity' = SaveLog(file, cache, "ok")
    /\ ret' = "True"
    /\ pc' = "done"
    /\ UNCHANGED <<now, cache, keys, mode, max_consecutive_failures, codes, i,
                   consecutive_failures, success_count, failure_count, sessions, hist>>

\* the process is terminated from outside while the run is under way
Kill ==
    /\ pc \notin {"idle", "done", "killed", "reloaded"}
    /\ pc' = "killed"
    /\ sessions' = 0
    /\ UNCHANGED clock
    /\ UNCHANGED <<cache, keys, file, mode, max_consecutive_failures, codes, i,
                   consecutive_failures, success_count, failure_count, ret, hist>>

\* StockDataCacheManager(cache_file) in a new process: __init__ and load_cache
Reload ==
    /\ pc = "killed"
    /\ cache' = load_cache(file)
    /\ keys' = SelectSeq(keys, LAMBDA c : c \in DOMAIN cache')
    /\ pc' = "reloaded"
    /\ UNCHANGED clock
    /\ UNCHANGED <<file, mode, max_consecutive_failures, codes, i,
                   consecutive_failures, success_count, failure_count, ret, sessions,
                   hist>>

NextCrash ==
    \/ \E threshold \in Thresholds : StartFinancial(threshold)
    \/ \E threshold \in Thresholds : StartGradual(threshold)
    \/ \E outcome \in LoginOutcomes : InitialLogin(outcome)
    \/ FatalCleanup
    \/ /\ pc = "item"
       /\ \E r \in SnapshotResponses(codes[i + 1]) : ProcessItem(r, "ok")
    \/ Backoff
    \/ RenewLogout
    \/ \E outcome \in LoginOutcomes : RenewLogin(outcome)
    \/ Pace
    \/ FinalLogout
    \/ \E io \in IoOutcomes : FinalSaveOpen(io)
    \/ FinalSaveDump
    \/ Kill
    \/ Reload

SpecCrash == Init /\ [][NextCrash]_vars

----------------------------------------------------------------------------
(* initialize_stock_list and update_stock_cache, and a manager on which    *)
(* operations are called one after another                                  *)

\* a row of query_stock_basic(): 'sh.600519' is market "sh", code 600519
ListingRow(market, code, name) ==
    [market |-> market, code |-> code, code_name |-> name,
     ipoDate |-> BasicRow(code).ipoDate, outDate |-> BasicRow(code).outDate]

\* the listing of the provider: an index that shares its digits with a
\* stock, two A shares, a Beijing share and a fund
Listing ==
    <<ListingRow("sh", <<0,0,0,0,0,1>>, "index"),
      ListingRow("sz", <<0,0,0,0,0,1>>, BasicRow(<<0,0,0,0,0,1>>).code_name),
      ListingRow("sh", <<6,0,0,5,1,9>>, BasicRow(<<6,0,0,5,1,9>>).code_name),
      ListingRow("bj", <<8,3,0,7,9,9>>, BasicRow(<<8,3,0,7,9,9>>).code_name),
      ListingRow("sh", <<5,1,0,0,5,0>>, "fund")>>

ListingResponses == {QueryError, Answer(<<>>), Answer(Listing)}

\* str.contains(r'^(sz|sh)\.(000|001|002|300|301|600|601|603|605|688)')
AShare(row) ==
    /\ row.market \in {"sz", "sh"}
    /\ StartsWithAny(row.code, {<<0,0,0>>, <<0,0,1>>, <<0,0,2>>, <<3,0,0>>, <<3,0,1>>,
                               <<6,0,0>>, <<6,0,1>>, <<6,0,3>>, <<6,0,5>>, <<6,8,8>>})

\* mutant: the assignment replaces the dict
Put_replacing(cch, code, value) == [c \in {code} |-> value]

\* self.cache[code] = value, with the insertion order of the dict
Put(cch, code, value) ==
    [c \in (DOMAIN cch) \cup {code} |-> IF c = code THEN value ELSE cch[c]]

PutOrder(cch, order, code) == IF code \in DOMAIN cch THEN order ELSE Append(order, code)

\* mutant: the skeleton is written as a detailed record
RowSkeleton_detailed(row) ==
    [code      |-> row.code,
     name      |-> row.code_name,
     industry  |-> PENDING,
     market    |-> _get_market_by_code(row.code),
     list_date |-> row.ipoDate,
     list_status |-> list_status_of(row.outDate),
     detailed_info_updated |-> TRUE]

\* the skeleton record initialize_stock_list writes for a row
RowSkeleton(row) ==
    [code      |-> row.code,
     name      |-> row.code_name,
     industry  |-> PENDING,
     market    |-> _get_market_by_code(row.code),
     list_date |-> row.ipoDate,
     list_status |-> list_status_of(row.outDate),
     detailed_info_updated |-> FALSE]

\* `if code in self.cache and 'close_price' in self.cache[code]: continue`
keeps_record(cch, code) == code \in DOMAIN cch /\ "close_price" \in DOMAIN cch[code]

\* the loop of initialize_stock_list over the filtered rows
RECURSIVE initialize_rows(_, _, _)
initialize_rows(cch, order, rows) ==
    IF rows = <<>> THEN [cache |-> cch, keys |-> order]
    ELSE LET row == Head(rows)
         IN  IF keeps_record(cch, row.code)
             THEN initialize_rows(cch, order, Tail(rows))
             ELSE initialize_rows(Put(cch, row.code, RowSkeleton(row)),
                                  PutOrder(cch, order, row.code), Tail(rows))

\* a listing operation reaches its loop: a failed login, or a listing with
\* an error code or no row, raises
listing_ok(outcome, answer) ==
    outcome = "ok" /\ answer.status = "ok" /\ answer.rows # <<>>

\* the calls of update_stock_cache: its handler logs out once more after
\* every raise; initialize_stock_list logs out once after a successful login
ListingHist(outcome, answer, saved, io, cch) ==
    [NoHist EXCEPT !.start_cache = cache, !.start_file = file,
                   !.initial_login = outcome,
                   !.logins = 1,
                   !.logins_ok = IF outcome = "ok" THEN 1 ELSE 0,
                   !.logouts = IF outcome = "ok" /\ ~saved THEN 2 ELSE 1,
                   !.logouts_closed = IF saved THEN 0 ELSE 1,
                   !.saves = IF saved THEN 1 ELSE 0,
                   !.final_saved = saved,
                   !.final_io = IF saved THEN io ELSE "none",
                   !.saving = IF saved THEN cch ELSE EmptyDict]

\* initialize_stock_list(): the whole operation
initialize_stock_list(outcome, answer, io) ==
    /\ pc = "idle"
    /\ mode' = "initialize_stock_list"
    /\ LET ok == listing_ok(outcome, answer)
           rows == IF ok THEN SelectSeq(answer.rows, AShare) ELSE <<>>
           new == initialize_rows(cache, keys, rows)
       IN  /\ codes' = IF ok THEN answer.rows ELSE <<>>
           /\ cache' = new.cache
           /\ keys' = new.keys
           /\ file' = IF ok THEN save_cache(file, new.cache, new.keys, io) ELSE file
           /\ validity' = IF ok THEN SaveLog(file, new.cache, io) ELSE validity
           /\ hist' = [ListingHist(outcome, answer, ok, io, new.cache) EXCEPT
                          !.logouts = IF outcome = "ok" THEN 1 ELSE 0,
                          !.logouts_closed = 0]
           /\ ret' = IF ok THEN "True" ELSE "False"
    /\ pc' = "done"
    /\ UNCHANGED <<now, max_consecutive_failures, i, consecutive_failures,
                   success_count, failure_count, sessions>>

max_stocks == 500

\* the answers of the provider to the per-code fetches of update_stock_cache
RowAnswers == {"rows", "error"}

RowResponse(code, answer) ==
    [AllAnswered EXCEPT !.basic = IF answer = "rows" THEN Answer(<<BasicRow(code)>>)
                                  ELSE QueryError]

\* the loop of update_stock_cache over the first max_stocks filtered rows
RECURSIVE update_rows(_, _, _, _)
update_rows(cch, order, rows, answers) ==
    IF rows = <<>> THEN [cache |-> cch, keys |-> order, updated |-> 0]
    ELSE LET code == Head(rows).code
             stock_info == get_stock_basic_info_from_baostock(
                               code, RowResponse(code, Head(answers)))
         IN  IF stock_info.some
             THEN LET rest == update_rows(Put(cch, code, stock_info.value),
                                          PutOrder(cch, order, code),
                                          Tail(rows), Tail(answers))
                  IN  [rest EXCEPT !.updated = @ + 1]
             ELSE update_rows(cch, order, Tail(rows), Tail(answers))

\* update_stock_cache(force_update) with gradual=False: the whole operation
update_stock_cache(force_update, outcome, answer, io) ==
    /\ pc = "idle"
    /\ mode' = "update_stock_cache"
    /\ IF ~force_update /\ is_cache_valid(file, now)
       THEN /\ ret' = "True"
            /\ hist' = [NoHist EXCEPT !.start_cache = cache, !.start_file = file]
            /\ UNCHANGED <<cache, keys, file, validity, codes, success_count>>
       ELSE LET ok == listing_ok(outcome, answer)
                filtered == IF ok THEN SelectSeq(answer.rows, AShare) ELSE <<>>
                rows == SubSeq(filtered, 1, Min(max_stocks, Len(filtered)))
            IN  \E answers \in [1..Len(rows) -> RowAnswers] :
                LET new == update_rows(cache, keys, rows, answers)
                IN  /\ codes' = IF ok THEN answer.rows ELSE <<>>
                    /\ cache' = new.cache
                    /\ keys' = new.keys
                    /\ success_count' = new.updated
                    /\ file' = IF ok THEN save_cache(file, new.cache, new.keys, io) ELSE file
                    /\ validity' = IF ok THEN SaveLog(file, new.cache, io) ELSE validity
                    /\ hist' = ListingHist(outcome, answer, ok, io, new.cache)
                    /\ ret' = IF ok THEN "True" ELSE "False"
    /\ pc' = "done"
    /\ UNCHANGED <<now, max_consecutive_failures, i, consecutive_failures,
                   failure_count, sessions>>

\* the operation has returned; the caller may call the next one
Return ==
    /\ pc = "done"
    /\ validity' = <<>>
    /\ pc' = "idle"
    /\ mode' = "none"
    /\ max_consecutive_failures' = 0
    /\ codes' = <<>>
    /\ i' = 0
    /\ consecutive_failures' = 0
    /\ success_count' = 0
    /\ failure_count' = 0
    /\ ret' = NoRet
    /\ hist' = NoHist
    /\ UNCHANGED <<cache, keys, file, now, sessions>>

\* the provider answers every query of the code, fails its basic-info
\* query, or has no K-line row for it
OpsResponses(code) ==
    {[AllAnswered EXCEPT !.basic = Answer(<<BasicRow(code)>>),
                         !.kdata = Answer(<<KRowOlder, KRowPriced>>)],
     [AllAnswered EXCEPT !.basic = Answer(<<BasicRow(code)>>), !.kdata = Answer(<<>>)],
     [AllAnswered EXCEPT !.basic = QueryError]}

NextOps ==
    \/ \E outcome \in LoginOutcomes : \E answer \in ListingResponses :
       \E io \in IoOutcomes : initialize_stock_list(outcome, answer, io)
    \/ \E force_update \in BOOLEAN : \E outcome \in LoginOutcomes :
       \E answer \in ListingResponses :
          update_stock_cache(force_update, outcome, answer, "ok")
    \/ StartFinancial(1)
    \/ StartGradual(1)
    \/ InitialLogin("ok")
    \/ /\ pc = "item"
       /\ \E r \in OpsResponses(codes[i + 1]) : ProcessItem(r, "ok")
    \/ Backoff
    \/ RenewLogout
    \/ RenewLogin("ok")
    \/ Pace
    \/ FinalLogout
    \/ FinalSave("ok")
    \/ get_stock_info(ExtraCode)
    \/ GsiLogin("ok")
    \/ /\ pc = "gsi_fetch"
       /\ \E r \in SnapshotResponses(codes[1]) : GsiFetch(r)
    \/ SaveCall("ok")
    \/ Return

\* a new manager with no snapshot file
InitOps ==
    /\ now = Today
    /\ validity = <<>>
    /\ keys = <<>>
    /\ cache = EmptyDict
    /\ file = NoFile
    /\ InitRun

SpecOps == InitOps /\ [][NextOps]_vars

----------------------------------------------------------------------------
(* A batch run that is left to run: every call made returns, so the step   *)
(* the run is at is eventually taken                                        *)

\* the provider answers every query of the code, fails its basic-info
\* query, or answers with a latest K-line row that has no price
RunResponses(code) ==
    {[AllAnswered EXCEPT !.basic = Answer(<<BasicRow(code)>>),
                         !.kdata = Answer(<<KRowOlder, KRowPriced>>)],
     [AllAnswered EXCEPT !.basic = QueryError],
     [AllAnswered EXCEPT !.basic = Answer(<<BasicRow(code)>>),
                         !.kdata = Answer(<<KRowPriced, KRowNoPrice>>)]}

NextRun ==
    \/ \E threshold \in Thresholds : StartFinancial(threshold)
    \/ \E threshold \in Thresholds : StartGradual(threshold)
    \/ \E outcome \in LoginOutcomes : InitialLogin(outcome)
    \/ FatalCleanup
    \/ /\ pc = "item"
       /\ \E r \in RunResponses(codes[i + 1]) : ProcessItem(r, "ok")
    \/ Backoff
    \/ RenewLogout
    \/ \E outcome \in LoginOutcomes : RenewLogin(outcome)
    \/ Pace
    \/ FinalLogout
    \/ \E io \in IoOutcomes : FinalSave(io)

SpecRunFair == Init /\ [][NextRun]_vars /\ WF_vars(NextRun)

----------------------------------------------------------------------------
(* get_stocks_by_market_cap, called on caches whose records have a market  *)
(* cap, have None for it, or have no such key                               *)

\* the loop over self.cache.items(): the records that have a market_cap and
\* pass the bounds that are not None, in the order of the dict
cap_filtered(cch, order, min_cap, max_cap) ==
    LET market_cap(code) == Get(cch[code], "market_cap", None)
        passes(code) ==
            /\ market_cap(code) # None
            /\ ~(min_cap # None /\ market_cap(code) < min_cap)
            /\ ~(max_cap # None /\ market_cap(code) > max_cap)
        selected == SelectSeq(order, passes)
    IN  [k \in 1..Len(selected) |-> cch[selected[k]]]

\* the place of a record in a list sorted from largest to smallest: after
\* the records that are not smaller, as a stable sort places it
RECURSIVE insert_by_cap(_, _)
insert_by_cap(sorted, info) ==
    IF sorted = <<>> THEN <<info>>
    ELSE IF Head(sorted).market_cap >= info.market_cap
         THEN <<Head(sorted)>> \o insert_by_cap(Tail(sorted), info)
         ELSE <<info>> \o sorted

\* result.sort(key=market_cap, reverse=True)
RECURSIVE sort_by_cap(_)
sort_by_cap(result) ==
    IF result = <<>> THEN <<>>
    ELSE insert_by_cap(sort_by_cap(SubSeq(result, 1, Len(result) - 1)),
                       result[Len(result)])

\* mutant: the list is returned in the order of the dict
stocks_by_market_cap_unsorted(cch, order, min_cap, max_cap) ==
    cap_filtered(cch, order, min_cap, max_cap)

stocks_by_market_cap(cch, order, min_cap, max_cap) ==
    sort_by_cap(cap_filtered(cch, order, min_cap, max_cap))

get_stocks_by_market_cap(min_cap, max_cap) ==
    /\ pc = "idle"
    /\ mode' = "get_stocks_by_market_cap"
    /\ hist' = [NoHist EXCEPT !.start_cache = cache, !.start_file = file,
                              !.args = <<min_cap, max_cap>>,
                              !.result = stocks_by_market_cap(cache, keys, min_cap, max_cap)]
    /\ ret' = "list"
    /\ pc' = "done"
    /\ UNCHANGED clock
    /\ UNCHANGED <<cache, keys, file, max_consecutive_failures, codes, i,
                   consecutive_failures, success_count, failure_count, sessions>>

\* the close of the latest K-line row of a cached record: '0', 0.8 or 1.5
CapPrices == {<<0>>, <<8>>, <<15>>}

\* a record an earlier fetch wrote while the close was p
PricedRecord(code, p) ==
    get_stock_basic_info_from_baostock(code,
        [AllAnswered EXCEPT !.basic = Answer(<<BasicRow(code)>>),
                            !.kdata = Answer(<<KRow(p, <<5000>>, <<85>>)>>)]).value

\* bounds of the caller: none, or a market cap
CapBounds == {None, 60, 120}

InitFilter ==
    /\ now = Today
    /\ validity = <<>>
    /\ \E n \in 0..NumCodes :
          /\ keys = CodeSeq(n)
          /\ \E skeletons \in SUBSET Range(CodeSeq(n)) :
             \E price \in [Range(CodeSeq(n)) \ skeletons -> CapPrices] :
                cache = [c \in Range(CodeSeq(n)) |->
                            IF c \in skeletons THEN SkeletonRecord(c)
                            ELSE PricedRecord(c, price[c])]
          /\ file = IF n = 0 THEN NoFile ELSE Snapshot(cache, keys)
    /\ InitRun

NextFilter ==
    \E min_cap \in CapBounds : \E max_cap \in CapBounds :
       get_stocks_by_market_cap(min_cap, max_cap)

SpecFilter == InitFilter /\ [][NextFilter]_vars

----------------------------------------------------------------------------
(* StockInfoCache (stock_info_cache.py): its cache, keyed by the six-digit *)
(* code as a string, and its file, a JSON document                          *)

InfoCodes == {"000001", "600519", "830799"}

\* StockInfoCache._get_market_by_code
StockInfoCache_get_market_by_code(code) ==
    CASE code = "600519" -> "Shanghai"
      [] code = "000001" -> "Shenzhen"
      [] OTHER -> "Beijing"

\* what a data source returned for the code
SourceInfo(code) ==
    [name |-> "listed name", industry |-> "bank",
     market |-> StockInfoCache_get_market_by_code(code), last_updated |-> "2024-08-28"]

\* the default info of a code no data source answered for
DefaultInfo(code) ==
    [name |-> DefaultName, industry |-> UNKNOWN,
     market |-> StockInfoCache_get_market_by_code(code), last_updated |-> "2024-08-28"]

\* the document json.dump writes for a value, as json.load reads it back
\* (dicts with string keys and string values)
JsonFile(doc) == [exists |-> TRUE, doc |-> doc]

\* the file test_html_generation.create_test_data writes: a code-to-info map
TestInfoFile == JsonFile([c \in {"000001"} |-> SourceInfo(c)])

\* the file StockDataCacheManager.save_cache writes under the same default
\* name: the map under the key 'stocks'
ManagerInfoFile ==
    JsonFile([last_update |-> "2024-08-28", data_source |-> "baostock", total_count |-> 1,
              stocks |-> [c \in {"000001"} |-> SourceInfo(c)]])

\* StockInfoCache.load_cache: self.cache = data['stocks']; a missing key
\* raises KeyError, which the handler turns into an empty cache
StockInfoCache_load_cache(f) ==
    IF ~f.exists THEN EmptyDict
    ELSE IF "stocks" \in DOMAIN f.doc THEN f.doc["stocks"]
    ELSE EmptyDict

\* StockInfoCache.save_cache: json.dump(self.cache, f)
StockInfoCache_save_cache(f, cch, io) == IF io = "ok" THEN JsonFile(cch) ELSE f

InfoReady == pc \in {"idle", "saved", "reloaded"}

\* StockInfoCache.get_stock_info(code): a cached info is returned, else the
\* info of the data source or the default info is cached
StockInfoCache_get_stock_info(code, answered) ==
    /\ InfoReady
    /\ pc' = "idle"
    /\ mode' = "StockInfoCache.get_stock_info"
    /\ cache' = IF code \in DOMAIN cache THEN cache
                ELSE Put(cache, code, IF answered THEN SourceInfo(code)
                                                  ELSE DefaultInfo(code))
    /\ ret' = "record"
    /\ UNCHANGED clock
    /\ UNCHANGED <<keys, file, max_consecutive_failures, codes, i, consecutive_failures,
                   success_count, failure_count, sessions, hist>>

\* StockInfoCache.save_cache()
InfoSave(io) ==
    /\ InfoReady
    /\ pc' = "saved"
    /\ mode' = "StockInfoCache.save_cache"
    /\ file' = StockInfoCache_save_cache(file, cache, io)
    /\ hist' = [NoHist EXCEPT !.start_cache = cache, !.start_file = file,
                              !.saves = 1, !.saving = cache, !.final_io = io]
    /\ ret' = "None"
    /\ UNCHANGED clock
    /\ UNCHANGED <<cache, keys, max_consecutive_failures, codes, i,
                   consecutive_failures, success_count, failure_count, sessions>>

\* a new StockInfoCache is constructed on the same file
InfoNew ==
    /\ pc = "saved"
    /\ pc' = "reloaded"
    /\ mode' = "StockInfoCache.__init__"
    /\ cache' = StockInfoCache_load_cache(file)
    /\ ret' = "None"
    /\ UNCHANGED clock
    /\ UNCHANGED <<keys, file, max_consecutive_failures, codes, i, consecutive_failures,
                   success_count, failure_count, sessions, hist>>

\* a StockInfoCache constructed on no file, on the file of the test data, or
\* on a file of StockDataCacheManager
InitInfo ==
    /\ now = Today
    /\ validity = <<>>
    /\ keys = <<>>
    /\ file \in {NoFile, TestInfoFile, ManagerInfoFile}
    /\ cache = StockInfoCache_load_cache(file)
    /\ InitRun

NextInfo ==
    \/ \E code \in InfoCodes : \E answered \in BOOLEAN :
          StockInfoCache_get_stock_info(code, answered)
    \/ \E io \in IoOutcomes : InfoSave(io)
    \/ InfoNew

SpecInfo == InitInfo /\ [][NextInfo]_vars

----------------------------------------------------------------------------
(* Properties *)

BatchModes == {"financial", "gradual"}

RunReturned == pc = "done" /\ mode \in BatchModes

ProducedFields ==
    (DOMAIN hist.fetched.value) \cup
    (IF mode = "gradual" THEN {"detailed_info_updated"} ELSE {})

\* C2: after a batch run wrote a fetched result into the cache, every field
\* of the existing record that the fetch did not produce still has the value
\* it had in the existing record.
C2_UnfetchedFieldsKept ==
    (mode \in BatchModes /\ hist.fetched.some) =>
        LET code == Last(hist.fetches)
        IN  \A X \in (DOMAIN hist.existing) \ ProducedFields :
                /\ X \in DOMAIN cache[code]
                /\ cache[code][X] = hist.existing[X]

FailedAnswers == {"error", "empty"}

ItemIsFailure ==
    /\ consecutive_failures' = consecutive_failures + 1
    /\ mode = "financial" => failure_count' = failure_count + 1
    /\ success_count' = success_count
    /\ cache' = cache

ItemIsSuccess ==
    /\ success_count' = success_count + 1
    /\ cache'[codes[i + 1]].detailed_info_updated = TRUE

\* C3 (as stated): when the basic-info or the history query of an item is
\* answered with an error code or with no rows, the item is a recoverable
\* failure: the failure counters are incremented, the success count and the
\* cached record are unchanged (so the code stays pending).
C3_AnyFailedQueryFailsItem ==
    [][(pc = "item" /\ (hist'.queries.basic \in FailedAnswers
                        \/ hist'.queries.kdata \in FailedAnswers))
        => ItemIsFailure]_vars

\* C3 (amended): when the basic-info query of an item is answered with an
\* error code or with no rows, the item is a recoverable failure
\* (consecutive_failures, and failure_count in the financial run, are
\* incremented; the success count and the cached record are unchanged, so a
\* pending code stays pending).  When only the history query is answered
\* with an error code or with no rows, the item is a success: the record is
\* written without price fields and with detailed_info_updated true.
C3_FailedBasicQueryFailsItem ==
    [][/\ (pc = "item" /\ hist'.queries.basic \in FailedAnswers) => ItemIsFailure
       /\ (pc = "item" /\ hist'.queries.kdata \in FailedAnswers)
            => (ItemIsSuccess /\ "close_price" \notin DOMAIN hist'.fetched.value)]_vars

C3_Witness ==
    /\ mode = "gradual"
    /\ hist.queries.basic = "empty"
    /\ ~hist.fetched.some
    /\ consecutive_failures = 1
    /\ success_count = 1
    /\ Get(cache[Last(hist.fetches)], "detailed_info_updated", TRUE) = FALSE

\* C4: in a batch run the checkpoint saves made so far are exactly one for
\* each positive multiple of K reached by the success count (K = 100 in the
\* financial run, 10 in the gradual run), in order, and no other.
C4_CheckpointEveryK ==
    mode \in BatchModes =>
        hist.ckpts = [k \in 1..(success_count \div checkpoint_every(mode)) |->
                         k * checkpoint_every(mode)]

\* the pause the tables give for N failures in excess of the threshold
TablePause(m, excess) ==
    CASE excess = 0 -> IF m = "financial" THEN 20 ELSE 10
      [] excess = 1 -> IF m = "financial" THEN 60 ELSE 15
      [] excess = 2 -> IF m = "financial" THEN 120 ELSE 20
      [] OTHER -> IF m = "financial" THEN 300 ELSE 30

C6_BackoffThenRenewal ==
    /\ (mode \in BatchModes /\ hist.trace = <<Event("fetch", 0)>> /\ ~hist.fetched.some
        /\ consecutive_failures >= max_consecutive_failures) => pc = "backoff"
    /\ (pc \in {"item", "final_logout"} /\ ~hist.renew_failed /\ Len(hist.tripped) > 0
        /\ \E k \in 1..Len(hist.trace) : hist.trace[k].ev = "backoff_sleep") =>
          /\ hist.trace = <<Event("fetch", 0),
                            Event("backoff_sleep", hist.tripped[Len(hist.tripped)].pause),
                            Event("logout", 0), Event("login_ok", 0)>>
          /\ consecutive_failures = 0
          /\ sessions = 1
    /\ pc = "renew_login" => sessions = 0
    /\ ~hist.fetch_closed

C6_Witness ==
    /\ pc = "item"
    /\ max_consecutive_failures = 2
    /\ mode = "financial"
    /\ Len(hist.trace) = 4
    /\ hist.trace[2] = Event("backoff_sleep", 20)

\* C7: a batch run whose session renewal failed returns False.
C7_RenewFailureReturnsFalse ==
    (RunReturned /\ hist.renew_failed) => ret = "False"

C9_LoginFailureNoLogout ==
    (RunReturned /\ hist.initial_login \in {"fail", "raise"}) =>
        /\ ret = "False"
        /\ hist.fetches = <<>>
        /\ cache = hist.start_cache
        /\ hist.saves = 0
        /\ file = hist.start_file
        /\ hist.logouts = 0

\* C9 (amended): a batch run whose first login fails returns False, has
\* fetched no code, has not changed or saved the cache, and has called
\* logout exactly once, although no session was open.
C9_LoginFailureOneLogout ==
    (mode \in BatchModes /\ hist.initial_login \in {"fail", "raise"}) =>
        /\ pc \in {"fatal", "done"}
        /\ pc = "done" => (ret = "False" /\ hist.logouts = 1 /\ hist.logouts_closed = 1)
        /\ hist.fetches = <<>>
        /\ cache = hist.start_cache
        /\ hist.saves = 0
        /\ file = hist.start_file
        /\ sessions = 0

C9_Witness ==
    /\ RunReturned
    /\ hist.initial_login = "fail"
    /\ ret = "False"
    /\ hist.logouts_closed = 1

\* C10: no per-code fetch is made while no session is open, in the batch
\* runs and in get_stock_info, and at most one session is open at any time;
\* whenever a fetch is the next step a session is open, and none is left open
\* when the operation returns.
C10_FetchOnlyInSession ==
    /\ ~hist.fetch_closed
    /\ sessions <= 1
    /\ pc \in {"item", "gsi_fetch"} => sessions = 1
    /\ pc \in {"idle", "done"} => sessions = 0

C10_Witness ==
    /\ mode = "get_stock_info"
    /\ pc = "done"
    /\ Len(hist.fetches) = 1
    /\ hist.logins_ok = 1
    /\ sessions = 0

\* C11: a batch run whose pending list is empty at the start (financial run:
\* the cache has no code; gradual run: every cached record has
\* detailed_info_updated true) returns True at once: it makes no login, no
\* logout, no fetch, no sleep and no save, and leaves cache and file as they
\* were.
C11_EmptyPendingReturnsAtOnce ==
    (mode \in BatchModes
     /\ IF mode = "financial" THEN DOMAIN hist.start_cache = {}
        ELSE \A c \in DOMAIN hist.start_cache :
                 Get(hist.start_cache[c], "detailed_info_updated", FALSE)) =>
        /\ pc = "done"
        /\ ret = "True"
        /\ hist.logins = 0
        /\ hist.logouts = 0
        /\ hist.fetches = <<>>
        /\ hist.saves = 0
        /\ hist.trace = <<>>
        /\ cache = hist.start_cache
        /\ file = hist.start_file

C11_Witness ==
    /\ RunReturned
    /\ mode = "gradual"
    /\ DOMAIN cache # {}
    /\ \A c \in DOMAIN cache : Get(cache[c], "detailed_info_updated", FALSE)
    /\ hist.logins = 0
    /\ ret = "True"

\* the codes whose record at the start of the run has detailed_info_updated true
DetailedAtStart ==
    {c \in DOMAIN hist.start_cache :
        "detailed_info_updated" \in DOMAIN hist.start_cache[c]
        /\ hist.start_cache[c].detailed_info_updated = TRUE}

\* C12: in a gradual run the pending list holds exactly the cached codes
\* whose record lacks detailed_info_updated = true, each once; a code whose
\* record has it already is never fetched, its record is left unchanged, and
\* the success count counts only pending codes (those the run has detailed).
C12_GradualPendingSet ==
    mode = "gradual" =>
        /\ Range(codes) = (DOMAIN hist.start_cache) \ DetailedAtStart
        /\ Len(codes) = Cardinality(Range(codes))
        /\ \A c \in DetailedAtStart :
              /\ \A k \in 1..Len(hist.fetches) : hist.fetches[k] # c
              /\ cache[c] = hist.start_cache[c]
        /\ success_count =
              Cardinality({c \in Range(codes) :
                              Get(cache[c], "detailed_info_updated", FALSE)})

C12_Witness ==
    /\ RunReturned
    /\ mode = "gradual"
    /\ DetailedAtStart # {}
    /\ Len(codes) = 2
    /\ success_count = 2

\* C13: an exception raised while an item is processed is caught inside the
\* loop: the item is counted as a failure (consecutive_failures and
\* failure_count are incremented) and the loop goes on with the next code, or
\* ends normally after the last one; a run in which items raised and no
\* renewal failed has fetched every code of its list and returns True.
C13_ItemExceptionKeepsLoop ==
    /\ []((RunReturned /\ hist.raised > 0 /\ ~hist.renew_failed) =>
            (hist.fetches = codes /\ ret = "True" /\ hist.final_saved))
    /\ [][(pc = "item" /\ hist'.raised = hist.raised + 1) =>
            /\ failure_count' = failure_count + 1
            /\ consecutive_failures' >= 1
            /\ i' = i + 1
            /\ pc' = IF i + 1 < Len(codes) THEN "item" ELSE "final_logout"]_vars

C13_Witness ==
    /\ RunReturned
    /\ mode = "financial"
    /\ Len(codes) = NumCodes
    /\ hist.raised = 1
    /\ failure_count = 1
    /\ Get(cache[codes[1]], "market_cap", 0) = None
    /\ hist.fetches = codes
    /\ ret = "True"

Sleeps == {"pace_sleep", "backoff_sleep"}

\* C14: in a batch run, when the fetch of a code is about to start and a
\* code was fetched before it, a sleep (the pacing delay, or the backoff
\* pause) was made since that earlier fetch, whatever its outcome; after the
\* fetch of the last code no pacing delay is slept.
C14_SleepBetweenFetches ==
    mode \in BatchModes =>
        /\ (pc = "item" /\ hist.fetches # <<>>) =>
              \E k \in 1..Len(hist.trace) : hist.trace[k].ev \in Sleeps
        /\ pc \in {"final_logout", "final_save", "done"} =>
              \A k \in 1..Len(hist.trace) : hist.trace[k].ev # "pace_sleep"

\* C15: in a batch run an item whose fetch returns nothing leaves the cache
\* unchanged, no code is fetched twice (the codes fetched so far are the
\* first codes of the list, each once), and an item whose fetch returns a
\* record leaves consecutive_failures at 0 and the success count greater by
\* exactly one.
C15_FetchOnceResetOnSuccess ==
    /\ [](mode \in BatchModes =>
            /\ Len(hist.fetches) <= Len(codes)
            /\ hist.fetches = SubSeq(codes, 1, Len(hist.fetches))
            /\ \A j, k \in 1..Len(codes) : codes[j] = codes[k] => j = k)
    /\ [][/\ (pc = "item" /\ ~hist'.fetched.some) => cache' = cache
          /\ (pc = "item" /\ hist'.fetched.some) =>
                /\ consecutive_failures' = 0
                /\ success_count' = success_count + 1]_vars

ListingFields == {"name", "industry", "list_date", "list_status"}

\* C16: in the financial run the basic-info query of an item is issued
\* exactly when the existing record has no name or has the pending industry;
\* when it is not issued, name, industry, list_date and list_status of the
\* fetched result are those of the existing record, delisted records
\* included.
C16_ListingMetadataReused ==
    (mode = "financial" /\ hist.fetches # <<>>) =>
        /\ hist.queries.basic # "skipped" <=>
              (Get(hist.existing, "name", "") = ""
               \/ Get(hist.existing, "industry", "") = PENDING)
        /\ (hist.queries.basic = "skipped" /\ hist.fetched.some) =>
              \A X \in ListingFields : hist.fetched.value[X] = hist.existing[X]

FlagOf(record) == Get(record, "detailed_info_updated", FALSE)

\* C17 (as stated): after an update wrote a fetched record, the record has
\* detailed_info_updated true only if the flag was true before the update or
\* the basic-info query was issued and answered with a row in that update.
C17_FlagOnlyAfterBasicFetch ==
    hist.fetched.some =>
        (FlagOf(cache[Last(hist.fetches)]) =>
            (FlagOf(hist.existing) \/ hist.queries.basic = "rows"))

\* C17 (amended): every record written by a batch run has
\* detailed_info_updated true, whatever the flag was before; this implies
\* that the basic-info query was issued and answered with a row in that
\* update, or (financial run only) that the query was skipped because the
\* existing record already had a name and an industry other than the pending
\* sentinel.  A record written by get_stock_info has no flag.
C17_FlagAfterEveryBatchUpdate ==
    hist.fetched.some =>
        LET record == cache[Last(hist.fetches)]
        IN  /\ mode \in BatchModes =>
                  /\ "detailed_info_updated" \in DOMAIN record
                  /\ record.detailed_info_updated = TRUE
                  /\ \/ hist.queries.basic = "rows"
                     \/ /\ mode = "financial"
                        /\ hist.queries.basic = "skipped"
                        /\ Get(hist.existing, "name", "") # ""
                        /\ Get(hist.existing, "industry", "") # PENDING
            /\ mode = "get_stock_info" => "detailed_info_updated" \notin DOMAIN record

C17_Witness ==
    /\ mode = "financial"
    /\ hist.fetched.some
    /\ hist.queries.basic = "skipped"
    /\ ~FlagOf(hist.existing)
    /\ FlagOf(cache[Last(hist.fetches)])

\* the share counts the estimate uses, by the first three digits (unit 1e8)
SharesByPrefix(code) ==
    LET p == SubSeq(code, 1, 3)
    IN  CASE p \in {<<0,0,0>>, <<0,0,1>>, <<0,0,2>>} -> 8
          [] p \in {<<3,0,0>>, <<3,0,1>>} -> 4
          [] p \in {<<6,0,0>>, <<6,0,1>>, <<6,0,3>>, <<6,0,5>>} -> 15
          [] p = <<6,8,8>> -> 6
          [] OTHER -> 10

\* C18: in every result of the two fetch functions, market_cap is
\* close_price times the share count of the code prefix when close_price is
\* positive (9640, that is 9.64e10 yuan, for a close of 120.5 and prefix 000);
\* when close_price is 0 market_cap is None, and when the result has no
\* close_price it has no market_cap; market_cap is never 0.
C18_MarketCapEstimate ==
    hist.fetched.some =>
        LET v == hist.fetched.value
        IN  /\ "market_cap" \in DOMAIN v <=> "close_price" \in DOMAIN v
            /\ "close_price" \in DOMAIN v =>
                  /\ v.close_price >= 0
                  /\ v.close_price > 0 =>
                        v.market_cap = v.close_price * SharesByPrefix(v.code)
                  /\ v.close_price = 0 => v.market_cap = None
                  /\ v.market_cap # 0
            /\ (v.code = <<0,0,0,0,0,1>> /\ Get(v, "close_price", 0) = 1205) =>
                  v.market_cap = 9640

C18_Witness ==
    /\ hist.fetched.some
    /\ mode = "update_stock_financial_data_only"
    /\ hist.fetched.value.code = <<6,8,8,9,8,1>>
    /\ Get(hist.fetched.value, "close_price", 0) = 1205
    /\ hist.fetched.value.market_cap = 7230

\* the step is a call of save_cache() whose write succeeded
SavedNow ==
    /\ Len(validity') = Len(validity) + 1
    /\ validity'[Len(validity')].ev = "save"
    /\ validity'[Len(validity')].result

\* C19: right after a save_cache() whose write succeeded, the records of
\* the file are exactly the records of the cache in memory (no record of the
\* earlier file is left where the cache has another one or none), total_count
\* is the number of these records and last_update is the time of the save.
C19_SaveWritesWholeCache ==
    [][SavedNow =>
         /\ file'.exists
         /\ DOMAIN file'.stocks = DOMAIN cache'
         /\ \A c \in DOMAIN cache' : file'.stocks[c] = cache'[c]
         /\ file'.total_count = Cardinality(DOMAIN cache')
         /\ file'.order = keys'
         /\ file'.last_update = now']_vars

C19_Witness ==
    /\ RunReturned
    /\ validity # <<>>
    /\ validity[Len(validity)].ev = "save"
    /\ validity[Len(validity)].result
    /\ hist.start_file.exists
    /\ \E c \in DOMAIN cache : hist.start_file.stocks[c] # cache[c]
    /\ file.stocks = cache
    /\ file.total_count = NumCodes

\* two calls of is_cache_valid with no call of save_cache between them
ConsecutiveValidCalls ==
    {k \in 1..(Len(validity) - 1) :
        validity[k].ev = "valid" /\ validity[k + 1].ev = "valid"}

\* C20 (as stated): two calls of is_cache_valid() with no save_cache()
\* between them return the same result, whatever happens between them.
C20_ValiditySameBetweenSaves ==
    \A k \in ConsecutiveValidCalls : validity[k].result = validity[k + 1].result

\* C20 (amended): is_cache_valid() depends only on the last_update of the
\* snapshot file and on the current time: it is true iff the file has a
\* last_update less than cache_validity_days (15) days old.  Two calls with
\* no save_cache() between them read the same last_update; made on the same
\* day they return the same result whatever was updated in memory, and as
\* days pass the result can only change from true to false.
C20_ValidityBySnapshotAndDay ==
    /\ \A k \in 1..Len(validity) :
          validity[k].ev = "valid" =>
             (validity[k].result <=>
                 (validity[k].last_update # None
                  /\ validity[k].at - validity[k].last_update < 15))
    /\ \A k \in ConsecutiveValidCalls :
          /\ validity[k].last_update = validity[k + 1].last_update
          /\ validity[k].at = validity[k + 1].at =>
                validity[k].result = validity[k + 1].result
          /\ validity[k + 1].result => validity[k].result

C20_Witness ==
    /\ Len(validity) = 3
    /\ \A k \in 1..3 : validity[k].ev = "valid"
    /\ validity[1].result /\ validity[2].result /\ ~validity[3].result
    /\ validity[1].cached < validity[2].cached
    /\ validity[1].at = validity[2].at
    /\ validity[2].at < validity[3].at

\* C21: when the process of a batch run was terminated and a new manager
\* has loaded the file, its cache is the cache that the last save_cache()
\* call started by the run was given, or the cache of the start of the run
\* when the run had started no save; in particular it is not empty when the
\* run started from a non-empty snapshot, and every record that was
\* persisted with detailed_info_updated true is there with the flag true.
C21_KillLosesOnlyUnsavedUpdates ==
    pc = "reloaded" =>
        /\ cache = IF hist.saves > 0 THEN hist.saving ELSE hist.start_cache
        /\ \A c \in DOMAIN hist.start_cache :
              Get(hist.start_cache[c], "detailed_info_updated", FALSE) =>
                  (c \in DOMAIN cache /\ Get(cache[c], "detailed_info_updated", FALSE))

\* initialize_stock_list() has returned True on a cache that was empty, and
\* its save was written
InitializedFromEmpty ==
    /\ pc = "done"
    /\ mode = "initialize_stock_list"
    /\ ret = "True"
    /\ hist.start_cache = EmptyDict
    /\ hist.final_io = "ok"

\* the six-digit codes of the rows of the fetched listing that pass the filter
FilteredCodes == {codes[k].code : k \in {j \in 1..Len(codes) : AShare(codes[j])}}

\* C22 as stated: after initialize_stock_list() on an empty cache every
\* record has detailed_info_updated = false and the total_count of the saved
\* snapshot is the number of rows of the listing the provider returned
C22_TotalCountIsListingSize ==
    InitializedFromEmpty =>
        /\ \A c \in DOMAIN cache : cache[c].detailed_info_updated = FALSE
        /\ file.total_count = Len(codes)

\* C22 amended: after initialize_stock_list() on an empty cache every record
\* has detailed_info_updated = false, the cache holds one record for each
\* distinct six-digit code among the listing rows that pass the A-share
\* filter, and the total_count of the saved snapshot is the number of those
\* codes
C22_TotalCountIsFilteredCodes ==
    InitializedFromEmpty =>
        /\ \A c \in DOMAIN cache : cache[c].detailed_info_updated = FALSE
        /\ DOMAIN cache = FilteredCodes
        /\ file.exists
        /\ file.total_count = Cardinality(FilteredCodes)

C22_Witness ==
    /\ InitializedFromEmpty
    /\ Len(codes) = Len(Listing)
    /\ file.total_count = 2
    /\ \A c \in DOMAIN cache : cache[c].detailed_info_updated = FALSE

\* C23: no step of any operation removes a code from the in-memory cache
C23_CodesNeverRemoved == [][DOMAIN cache \subseteq DOMAIN cache']_vars

\* a later operation has returned on a cache that held records before it
C23_Witness ==
    /\ pc = "done"
    /\ mode \in {"initialize_stock_list", "update_stock_cache", "financial", "gradual"}
    /\ Cardinality(DOMAIN hist.start_cache) = 3
    /\ DOMAIN cache = DOMAIN hist.start_cache
    /\ cache # hist.start_cache

\* C28: a record whose detailed_info_updated is true keeps the flag at
\* every step of initialize_stock_list, of a gradual run and of a financial
\* run
C28_FlagNeverCleared ==
    [][mode' \in {"initialize_stock_list", "gradual", "financial"} =>
          \A c \in DOMAIN cache :
             Get(cache[c], "detailed_info_updated", FALSE) =>
                 (c \in DOMAIN cache' /\ Get(cache'[c], "detailed_info_updated", FALSE))]_vars

\* get_stocks_by_market_cap has returned
Filtered == pc = "done" /\ mode = "get_stocks_by_market_cap"

\* the cached records the bounds of the call admit
Admitted ==
    {cache[c] : c \in {d \in DOMAIN cache :
        LET market_cap == Get(cache[d], "market_cap", None)
        IN  /\ market_cap # None
            /\ hist.args[1] # None => hist.args[1] <= market_cap
            /\ hist.args[2] # None => market_cap <= hist.args[2]}}

\* C24: get_stocks_by_market_cap(min, max) returns each cached record whose
\* market_cap is not None and lies within the bounds that are not None,
\* once, and no other record, in an order in which market_cap never
\* increases; the cache is the one the call started on
C24_FilterByMarketCap ==
    Filtered =>
        /\ {hist.result[k] : k \in 1..Len(hist.result)} = Admitted
        /\ Len(hist.result) = Cardinality(Admitted)
        /\ \A k \in 1..(Len(hist.result) - 1) :
              hist.result[k].market_cap >= hist.result[k + 1].market_cap
        /\ cache = hist.start_cache

\* the call left out a record below the lower bound and returned two
\* records in the reverse of the order of the dict
C24_Witness ==
    /\ Filtered
    /\ hist.args = <<60, None>>
    /\ Len(hist.result) = 2
    /\ Cardinality(DOMAIN cache) = 3
    /\ hist.result[1].code = CodeList[2]
    /\ hist.result[2].code = CodeList[1]
    /\ hist.result[1].market_cap > hist.result[2].market_cap
    /\ Get(cache[CodeList[3]], "market_cap", 0) = None

\* C25: when a financial run has returned after its loop, success_count +
\* failure_count is the number of codes processed, which is at most
\* total_stocks: no code was counted twice
C25_EachCodeCountedOnce ==
    (pc = "done" /\ mode = "financial") =>
        /\ success_count + failure_count = Len(hist.fetches)
        /\ Len(hist.fetches) <= Len(codes)

\* C26: whenever the fetch of a code is about to start in a batch run,
\* consecutive_failures is below the threshold
C26_FetchStartsBelowThreshold ==
    (pc = "item" /\ mode \in BatchModes) =>
        consecutive_failures < max_consecutive_failures

C29_BatchRunTerminates ==
    /\ [](mode \in BatchModes =>
             /\ Len(hist.fetches) <= Len(codes)
             /\ Len(hist.tripped) <= Len(codes))
    /\ (mode \in BatchModes ~> pc = "done")

\* a run returned after a backoff pause for each code of its list
C29_Witness ==
    /\ RunReturned
    /\ Len(codes) = 3
    /\ Len(hist.fetches) = Len(codes)
    /\ Len(hist.tripped) = Len(codes)
    /\ ret = "True"

\* C30: when a StockInfoCache with a non-empty cache has saved it and a new
\* StockInfoCache is constructed on the file, the cache of the new one is
\* the map that was saved
C30_InfoCacheRoundTrip ==
    (pc = "reloaded" /\ hist.final_io = "ok" /\ hist.saving # EmptyDict) =>
        cache = hist.saving

============================================================================
